---- MODULE Spec2Model ----
(***************************************************************************)
(* Model of the disk-image client of civogo (src/disk_image.go).           *)
(*                                                                         *)
(* The client is stateless: every operation issues one transport request,  *)
(* decodes the reply and, for the three scanning operations, scans the     *)
(* filtered catalog in memory.  An invocation is one action; the state     *)
(* records the invocation (operation, argument, the requests it issued,    *)
(* the transport's reply) and what it returned.  Return hands the result   *)
(* to the caller, after which the next invocation can start.               *)
(*                                                                         *)
(* Strings are sequences of bytes (ASCII codes), so that ==, strings.      *)
(* Contains and the byte-wise comparisons of semver are computed, not      *)
(* assumed.                                                                *)
(***************************************************************************)
EXTENDS Integers, Sequences, FiniteSets, TLC

\* Longest server catalog the transport returns.
MaxCatalog == 2

(***************************************************************************)
(* String literals of the program and the strings the inputs are drawn     *)
(* from.                                                                   *)
(***************************************************************************)
\* "k3s"
K3s == <<107, 51, 115>>
\* "talos"
Talos == <<116, 97, 108, 111, 115>>

\* "deb", "deb1", "k3sdeb", "talos", "ub"
Names ==
  { <<100, 101, 98>>, <<100, 101, 98, 49>>, <<107, 51, 115, 100, 101, 98>>,
    <<116, 97, 108, 111, 115>>, <<117, 98>> }
\* "i1", "deb" (an ID that is also the Name of other entries)
IDs == { <<105, 49>>, <<100, 101, 98>> }
\* "v1.2.0", "v1.10.0", "1.9" (not a semantic version: no leading v)
Versions ==
  { <<118, 49, 46, 50, 46, 48>>, <<118, 49, 46, 49, 48, 46, 48>>, <<49, 46, 57>> }
\* "deb" (a Name, an ID and part of other Names), "i1", "i" (part of the ID
\* "i1" only), ""
Searches == { <<100, 101, 98>>, <<105, 49>>, <<105>>, <<>> }

\* The fields of DiskImage the operations read.
DiskImages == [ID : IDs, Name : Names, Version : Versions]

\* The JSON arrays the server can answer GET /v2/disk_images with.
Catalogs == UNION {[1..n -> DiskImages] : n \in 0..MaxCatalog}

(***************************************************************************)
(* strings.Contains                                                        *)
(***************************************************************************)
Contains(s, substr) ==
  \E i \in 0..(Len(s) - Len(substr)) : SubSeq(s, i + 1, i + Len(substr)) = substr

(***************************************************************************)
(* golang.org/x/mod/semver, as GetMostRecentDistro uses it: Compare parses *)
(* both strings; a string that is no semantic version is lower than every  *)
(* valid one and equal to every other invalid one.                         *)
(***************************************************************************)
IsDigit(c) == 48 <= c /\ c <= 57

\* [0-9A-Za-z-]
isIdentChar(c) ==
  (65 <= c /\ c <= 90) \/ (97 <= c /\ c <= 122) \/ IsDigit(c) \/ c = 45

Tail_(v, i) == SubSeq(v, i, Len(v))

\* Go's < on strings: byte-wise lexicographic.
RECURSIVE StrLess(_, _)
StrLess(x, y) ==
  IF y = <<>> THEN FALSE
  ELSE IF x = <<>> THEN TRUE
  ELSE IF x[1] # y[1] THEN x[1] < y[1]
  ELSE StrLess(Tail(x), Tail(y))

\* The number of leading digits of v.
LeadingDigits(v) ==
  CHOOSE n \in 0..Len(v) :
    /\ \A j \in 1..n : IsDigit(v[j])
    /\ n = Len(v) \/ ~IsDigit(v[n + 1])

ParseFail == [t |-> <<>>, rest |-> <<>>, ok |-> FALSE]

parseInt(v) ==
  IF v = <<>> THEN ParseFail
  ELSE IF ~IsDigit(v[1]) THEN ParseFail
  ELSE LET i == LeadingDigits(v)
       IN IF v[1] = 48 /\ i # 1 THEN ParseFail
          ELSE [t |-> SubSeq(v, 1, i), rest |-> Tail_(v, i + 1), ok |-> TRUE]

isBadNum(v) ==
  LeadingDigits(v) = Len(v) /\ Len(v) > 1 /\ v[1] = 48

isNum(v) == LeadingDigits(v) = Len(v)

\* The scan of parsePrerelease; i and start are 1-based positions in v.
RECURSIVE PrereleaseLoop(_, _, _)
PrereleaseLoop(v, i, start) ==
  IF i <= Len(v) /\ v[i] # 43
  THEN IF ~isIdentChar(v[i]) /\ v[i] # 46 THEN ParseFail
       ELSE IF v[i] = 46
            THEN IF start = i \/ isBadNum(SubSeq(v, start, i - 1)) THEN ParseFail
                 ELSE PrereleaseLoop(v, i + 1, i + 1)
            ELSE PrereleaseLoop(v, i + 1, start)
  ELSE IF start = i \/ isBadNum(SubSeq(v, start, i - 1)) THEN ParseFail
       ELSE [t |-> SubSeq(v, 1, i - 1), rest |-> Tail_(v, i), ok |-> TRUE]

parsePrerelease(v) ==
  IF v = <<>> THEN ParseFail
  ELSE IF v[1] # 45 THEN ParseFail
  ELSE PrereleaseLoop(v, 2, 2)

RECURSIVE BuildLoop(_, _, _)
BuildLoop(v, i, start) ==
  IF i <= Len(v)
  THEN IF ~isIdentChar(v[i]) /\ v[i] # 46 THEN ParseFail
       ELSE IF v[i] = 46
            THEN IF start = i THEN ParseFail ELSE BuildLoop(v, i + 1, i + 1)
            ELSE BuildLoop(v, i + 1, start)
  ELSE IF start = i THEN ParseFail
       ELSE [t |-> SubSeq(v, 1, i - 1), rest |-> Tail_(v, i), ok |-> TRUE]

parseBuild(v) ==
  IF v = <<>> THEN ParseFail
  ELSE IF v[1] # 43 THEN ParseFail
  ELSE BuildLoop(v, 2, 2)

Zero == <<48>>

NotParsed ==
  [ok |-> FALSE, major |-> <<>>, minor |-> <<>>, patch |-> <<>>, prerelease |-> <<>>]

Parsed(major, minor, patch, prerelease) ==
  [ok |-> TRUE, major |-> major, minor |-> minor, patch |-> patch,
   prerelease |-> prerelease]

\* What follows the patch number: an optional prerelease, an optional build.
parseSuffix(major, minor, patch, v) ==
  LET pre == IF v # <<>> /\ v[1] = 45 THEN parsePrerelease(v)
             ELSE [t |-> <<>>, rest |-> v, ok |-> TRUE]
  IN IF ~pre.ok THEN NotParsed
     ELSE LET b == IF pre.rest # <<>> /\ pre.rest[1] = 43 THEN parseBuild(pre.rest)
                   ELSE [t |-> <<>>, rest |-> pre.rest, ok |-> TRUE]
          IN IF ~b.ok THEN NotParsed
             ELSE IF b.rest # <<>> THEN NotParsed
             ELSE Parsed(major, minor, patch, pre.t)

parse(v) ==
  IF v = <<>> THEN NotParsed
  ELSE IF v[1] # 118 THEN NotParsed
  ELSE LET ma == parseInt(Tail(v))
       IN IF ~ma.ok THEN NotParsed
          ELSE IF ma.rest = <<>> THEN Parsed(ma.t, Zero, Zero, <<>>)
          ELSE IF ma.rest[1] # 46 THEN NotParsed
          ELSE LET mi == parseInt(Tail(ma.rest))
               IN IF ~mi.ok THEN NotParsed
                  ELSE IF mi.rest = <<>> THEN Parsed(ma.t, mi.t, Zero, <<>>)
                  ELSE IF mi.rest[1] # 46 THEN NotParsed
                  ELSE LET pa == parseInt(Tail(mi.rest))
                       IN IF ~pa.ok THEN NotParsed
                          ELSE parseSuffix(ma.t, mi.t, pa.t, pa.rest)

compareInt(x, y) ==
  IF x = y THEN 0
  ELSE IF Len(x) < Len(y) THEN -1
  ELSE IF Len(x) > Len(y) THEN 1
  ELSE IF StrLess(x, y) THEN -1 ELSE 1

\* The identifier x starts with, up to the next dot.
nextIdentLen(x) ==
  CHOOSE n \in 0..Len(x) :
    /\ \A j \in 1..n : x[j] # 46
    /\ n = Len(x) \/ x[n + 1] = 46

RECURSIVE PrereleaseCompareLoop(_, _)
PrereleaseCompareLoop(x, y) ==
  IF x # <<>> /\ y # <<>>
  THEN LET x1 == Tail(x)
           y1 == Tail(y)
           dx == SubSeq(x1, 1, nextIdentLen(x1))
           dy == SubSeq(y1, 1, nextIdentLen(y1))
           xr == Tail_(x1, Len(dx) + 1)
           yr == Tail_(y1, Len(dy) + 1)
       IN IF dx # dy
          THEN LET ix == isNum(dx)
                   iy == isNum(dy)
               IN IF ix # iy THEN (IF ix THEN -1 ELSE 1)
                  ELSE IF ix /\ Len(dx) < Len(dy) THEN -1
                  ELSE IF ix /\ Len(dx) > Len(dy) THEN 1
                  ELSE IF StrLess(dx, dy) THEN -1 ELSE 1
          ELSE PrereleaseCompareLoop(xr, yr)
  ELSE IF x = <<>> THEN -1 ELSE 1

comparePrerelease(x, y) ==
  IF x = y THEN 0
  ELSE IF x = <<>> THEN 1
  ELSE IF y = <<>> THEN -1
  ELSE PrereleaseCompareLoop(x, y)

\* semver.Compare: -1, 0 or +1.
Compare(v, w) ==
  LET pv == parse(v)
      pw == parse(w)
  IN IF ~pv.ok /\ ~pw.ok THEN 0
     ELSE IF ~pv.ok THEN -1
     ELSE IF ~pw.ok THEN 1
     ELSE IF compareInt(pv.major, pw.major) # 0 THEN compareInt(pv.major, pw.major)
     ELSE IF compareInt(pv.minor, pw.minor) # 0 THEN compareInt(pv.minor, pw.minor)
     ELSE IF compareInt(pv.patch, pw.patch) # 0 THEN compareInt(pv.patch, pw.patch)
     ELSE comparePrerelease(pv.prerelease, pw.prerelease)

(***************************************************************************)
(* Values: errors, requests, transport replies.                            *)
(***************************************************************************)
\* The nil error.
NoError == [kind |-> "nil", format |-> "", arg |-> <<>>, classified |-> FALSE]

\* What SendGetRequest, SendPostRequest and SendDeleteRequest fail with.
TransportError ==
  [kind |-> "transport", format |-> "", arg |-> <<>>, classified |-> FALSE]

\* What json Decode fails with; the operations return it as it is.
JSONError == [kind |-> "json", format |-> "", arg |-> <<>>, classified |-> FALSE]

\* fmt.Errorf(format, arg), wrapped by the sentinel `kind` where there is one.
Errorf(kind, format, arg) ==
  [kind |-> kind, format |-> format, arg |-> arg, classified |-> FALSE]

\* decodeError classifies an error; a non-nil error stays non-nil.
decodeError(e) == IF e = NoError THEN NoError ELSE [e EXCEPT !.classified = TRUE]

\* DiskImage{}
ZeroDiskImage == [ID |-> <<>>, Name |-> <<>>, Version |-> <<>>]

Request(method, path, id, query, body) ==
  [method |-> method, path |-> path, id |-> id, query |-> query, body |-> body]

\* A transport reply: failed, or a body that is malformed JSON or decodes to
\* `body` (an array of entities; a single entity is an array of one).
Failed == [ok |-> FALSE, wellFormed |-> FALSE, body |-> <<>>]
Malformed == [ok |-> TRUE, wellFormed |-> FALSE, body |-> <<>>]
Body(b) == [ok |-> TRUE, wellFormed |-> TRUE, body |-> b]

CatalogReplies == {Failed, Malformed} \cup {Body(c) : c \in Catalogs}
ImageReplies == {Failed, Malformed} \cup {Body(<<d>>) : d \in DiskImages}

\* CreateDiskImageParams and CreateDiskImageResponse, by the fields that tell
\* two of them apart.
CreateParams == [Name : {<<100, 101, 98>>, <<117, 98>>}]
CreateResponses == [ID : IDs]
CreateReplies == {Failed, Malformed} \cup {Body(<<r>>) : r \in CreateResponses}
DeleteReplies == {Failed, Body(<<>>)}

\* What an operation hands back: the requests it issued and its results
\* (a pointer is a sequence of at most one element, nil the empty one).
Result(reqs, images_, image_, created_, err_) ==
  [requests |-> reqs, images |-> images_, image |-> image_,
   created |-> created_, err |-> err_]

(***************************************************************************)
(* ListDiskImages                                                          *)
(***************************************************************************)
\* Mutants of the filter: only "k3s" is dropped; nothing is dropped.
KeepDiskImageK3sOnly(diskImage) == ~Contains(diskImage.Name, K3s)

KeepDiskImageAll(diskImage) == TRUE

\* The filter of the returned catalog.
KeepDiskImage(diskImage) ==
  ~Contains(diskImage.Name, K3s) /\ ~Contains(diskImage.Name, Talos)

\* url := "/v2/disk_images"; if includeCustomFlag { url += "?type=custom" }
ListQuery(includeCustomFlag) == IF includeCustomFlag THEN "?type=custom" ELSE ""

\* What ListDiskImages does with the reply to its request.
ListDecode(reqs, reply_) ==
  IF ~reply_.ok
  THEN Result(reqs, <<>>, <<>>, <<>>, decodeError(TransportError))
  ELSE IF ~reply_.wellFormed
  THEN Result(reqs, <<>>, <<>>, <<>>, JSONError)
  ELSE Result(reqs, SelectSeq(reply_.body, KeepDiskImage), <<>>, <<>>, NoError)

\* includeCustom is variadic: a sequence of booleans, the first one counts.
ListDiskImagesOp(includeCustom_, reply_) ==
  LET includeCustomFlag == IF Len(includeCustom_) > 0 THEN includeCustom_[1] ELSE FALSE
      req == Request("GET", "/v2/disk_images", <<>>, ListQuery(includeCustomFlag), <<>>)
  IN ListDecode(<<req>>, reply_)

(***************************************************************************)
(* GetDiskImage, CreateDiskImage, DeleteDiskImage                          *)
(***************************************************************************)
GetDiskImageOp(id, reply_) ==
  LET req == Request("GET", "/v2/disk_images/%s", id, "", <<>>)
  IN IF ~reply_.ok
     THEN Result(<<req>>, <<>>, <<>>, <<>>, decodeError(TransportError))
     ELSE IF ~reply_.wellFormed
     THEN Result(<<req>>, <<>>, <<>>, <<>>, JSONError)
     ELSE Result(<<req>>, <<>>, reply_.body, <<>>, NoError)

CreateDiskImageOp(params, reply_) ==
  LET req == Request("POST", "/v2/disk_images", <<>>, "", <<params>>)
  IN IF ~reply_.ok
     THEN Result(<<req>>, <<>>, <<>>, <<>>, decodeError(TransportError))
     ELSE IF ~reply_.wellFormed
     THEN Result(<<req>>, <<>>, <<>>, <<>>, JSONError)
     ELSE Result(<<req>>, <<>>, <<>>, reply_.body, NoError)

DeleteDiskImageOp(id, reply_) ==
  LET req == Request("DELETE", "/v2/disk_images/%s", id, "", <<>>)
  IN IF ~reply_.ok
     THEN Result(<<req>>, <<>>, <<>>, <<>>, decodeError(TransportError))
     ELSE Result(<<req>>, <<>>, <<>>, <<>>, NoError)

(***************************************************************************)
(* FindDiskImage                                                           *)
(***************************************************************************)
ExactMatch(value, search_) == value.Name = search_ \/ value.ID = search_

\* Mutant: the ID is not searched for the substring.
PartialMatchNameOnly(value, search_) == Contains(value.Name, search_)

PartialMatch(value, search_) ==
  Contains(value.Name, search_) \/ Contains(value.ID, search_)

\* Mutant: a partial match overwrites the result after an exact match too.
FindStepPartialOverwrites(st, value, search_) ==
  IF value.Name = search_ \/ value.ID = search_
  THEN [st EXCEPT !.exactMatch = TRUE, !.result = value]
  ELSE IF Contains(value.Name, search_) \/ Contains(value.ID, search_)
  THEN [st EXCEPT !.result = value,
                  !.partialMatchesCount = st.partialMatchesCount + 1]
  ELSE st

\* Mutant: the first exact match is kept.
FindStepFirstExact(st, value, search_) ==
  IF value.Name = search_ \/ value.ID = search_
  THEN IF st.exactMatch THEN st
       ELSE [st EXCEPT !.exactMatch = TRUE, !.result = value]
  ELSE IF Contains(value.Name, search_) \/ Contains(value.ID, search_)
  THEN IF ~st.exactMatch
       THEN [st EXCEPT !.result = value,
                       !.partialMatchesCount = st.partialMatchesCount + 1]
       ELSE st
  ELSE st

\* One iteration of the scan; st holds exactMatch, partialMatchesCount, result.
FindStep(st, value, search_) ==
  IF ExactMatch(value, search_)
  THEN [st EXCEPT !.exactMatch = TRUE, !.result = value]
  ELSE IF PartialMatch(value, search_)
  THEN IF ~st.exactMatch
       THEN [st EXCEPT !.result = value,
                       !.partialMatchesCount = st.partialMatchesCount + 1]
       ELSE st
  ELSE st

RECURSIVE FindLoop(_, _, _, _)
FindLoop(templateList, search_, i, st) ==
  IF i > Len(templateList) THEN st
  ELSE FindLoop(templateList, search_, i + 1, FindStep(st, templateList[i], search_))

FindScan(templateList, search_) ==
  FindLoop(templateList, search_, 1,
           [exactMatch |-> FALSE, partialMatchesCount |-> 0, result |-> ZeroDiskImage])

\* Mutant: any number of partial matches is taken for a result.
FindDecideAnyPartial(reqs, st, search_) ==
  IF st.exactMatch \/ st.partialMatchesCount >= 1
  THEN Result(reqs, <<>>, <<st.result>>, <<>>, NoError)
  ELSE Result(reqs, <<>>, <<>>, <<>>,
              Errorf("ZeroMatchesError", "unable to find %s, zero matches", search_))

\* The decision after the scan.
FindDecide(reqs, st, search_) ==
  IF st.exactMatch \/ st.partialMatchesCount = 1
  THEN Result(reqs, <<>>, <<st.result>>, <<>>, NoError)
  ELSE IF st.partialMatchesCount > 1
  THEN Result(reqs, <<>>, <<>>, <<>>,
              Errorf("MultipleMatchesError",
                     "unable to find %s because there were multiple matches", search_))
  ELSE Result(reqs, <<>>, <<>>, <<>>,
              Errorf("ZeroMatchesError", "unable to find %s, zero matches", search_))

\* Mutant: the scanning operations ask for the custom images.
FetchCatalogCustom(reply_) == ListDiskImagesOp(<<TRUE>>, reply_)

\* The catalog fetch of the three scanning operations: c.ListDiskImages().
FetchCatalog(reply_) == ListDiskImagesOp(<<>>, reply_)

FindDiskImageOp(search_, reply_) ==
  LET l == FetchCatalog(reply_)
  IN IF l.err # NoError
     THEN Result(l.requests, <<>>, <<>>, <<>>, decodeError(l.err))
     ELSE FindDecide(l.requests, FindScan(l.images, search_), search_)

(***************************************************************************)
(* GetDiskImageByName                                                      *)
(***************************************************************************)
\* Mutant: an entry whose ID is the name is taken too.
NameMatchOrID(diskimage, name) == diskimage.Name = name \/ diskimage.ID = name

NameMatch(diskimage, name) == diskimage.Name = name

RECURSIVE ByNameLoop(_, _, _)
ByNameLoop(resp, name, i) ==
  IF i > Len(resp) THEN <<>>
  ELSE IF NameMatch(resp[i], name) THEN <<resp[i]>>
  ELSE ByNameLoop(resp, name, i + 1)

GetDiskImageByNameOp(name, reply_) ==
  LET l == FetchCatalog(reply_)
  IN IF l.err # NoError
     THEN Result(l.requests, <<>>, <<>>, <<>>, decodeError(l.err))
     ELSE LET found == ByNameLoop(l.images, name, 1)
          IN IF found # <<>>
             THEN Result(l.requests, <<>>, found, <<>>, NoError)
             ELSE Result(l.requests, <<>>, <<>>, <<>>,
                         Errorf("errors.New", "diskimage not found", <<>>))

(***************************************************************************)
(* GetMostRecentDistro                                                     *)
(*                                                                         *)
(* highestVersionDistro = &diskimage takes the address of the range        *)
(* variable.  With per-iteration range variables (go >= 1.22 in go.mod)    *)
(* the pointer keeps the entry of the iteration that took it; with one     *)
(* range variable for the whole loop (go < 1.22) it points at the variable *)
(* every iteration overwrites.  ptr is the iteration that took the         *)
(* address, 0 for nil; Deref gives what the pointer reads at iteration i.  *)
(***************************************************************************)
\* Mutant: the Name has to equal the name.
DistroMatchExact(diskimage, name) == diskimage.Name = name

DistroMatch(diskimage, name) == Contains(diskimage.Name, name)

Deref(resp, ptr, i, perIteration) == IF perIteration THEN resp[ptr] ELSE resp[i]

RECURSIVE DistroLoop(_, _, _, _, _)
DistroLoop(resp, name, i, ptr, perIteration) ==
  IF i > Len(resp) THEN ptr
  ELSE LET diskimage == resp[i]
           next == IF DistroMatch(diskimage, name)
                   THEN IF ptr = 0 THEN i
                        ELSE IF Compare(Deref(resp, ptr, i, perIteration).Version,
                                        diskimage.Version) < 0
                             THEN i
                             ELSE ptr
                   ELSE ptr
       IN DistroLoop(resp, name, i + 1, next, perIteration)

GetMostRecentDistroOp(name, reply_, perIteration) ==
  LET l == FetchCatalog(reply_)
  IN IF l.err # NoError
     THEN Result(l.requests, <<>>, <<>>, <<>>, decodeError(l.err))
     ELSE LET ptr == DistroLoop(l.images, name, 1, 0, perIteration)
          IN IF ptr = 0
             THEN Result(l.requests, <<>>, <<>>, <<>>,
                         Errorf("fmt.Errorf", "%s image not found", name))
             ELSE Result(l.requests, <<>>,
                         <<Deref(l.images, ptr, Len(l.images), perIteration)>>,
                         <<>>, NoError)

(***************************************************************************)
(* The state machine: one action per operation of the client.              *)
(***************************************************************************)
VARIABLES
  loopVarPerIteration, \* the build: whether range variables are per iteration
  op,             \* the operation that was invoked, "idle" between invocations
  search,         \* its string argument (search, name or id)
  includeCustom,  \* ListDiskImages' variadic argument
  params,         \* CreateDiskImage's argument, a sequence of at most one
  reply,          \* what the transport answered
  requests,       \* the transport requests the invocation issued
  images,         \* the returned slice
  image,          \* the returned *DiskImage
  created,        \* the returned *CreateDiskImageResponse
  err             \* the returned error

vars ==
  <<loopVarPerIteration, op, search, includeCustom, params, reply, requests,
    images, image, created, err>>

Init ==
  /\ loopVarPerIteration \in BOOLEAN
  /\ op = "idle"
  /\ search = <<>>
  /\ includeCustom = <<>>
  /\ params = <<>>
  /\ reply = Failed
  /\ requests = <<>>
  /\ images = <<>>
  /\ image = <<>>
  /\ created = <<>>
  /\ err = NoError

\* The invocation o(s, ic, p) got reply rp and returned r.
Invoke(o, s, ic, p, rp, r) ==
  /\ op' = o
  /\ search' = s
  /\ includeCustom' = ic
  /\ params' = p
  /\ reply' = rp
  /\ requests' = r.requests
  /\ images' = r.images
  /\ image' = r.image
  /\ created' = r.created
  /\ err' = r.err
  /\ UNCHANGED loopVarPerIteration

ListDiskImages ==
  /\ op = "idle"
  /\ \E ic \in {<<>>, <<FALSE>>, <<TRUE>>} : \E rp \in CatalogReplies :
      Invoke("ListDiskImages", <<>>, ic, <<>>, rp, ListDiskImagesOp(ic, rp))

GetDiskImage ==
  /\ op = "idle"
  /\ \E id \in IDs : \E rp \in ImageReplies :
      Invoke("GetDiskImage", id, <<>>, <<>>, rp, GetDiskImageOp(id, rp))

FindDiskImage ==
  /\ op = "idle"
  /\ \E s \in Searches : \E rp \in CatalogReplies :
      Invoke("FindDiskImage", s, <<>>, <<>>, rp, FindDiskImageOp(s, rp))

GetDiskImageByName ==
  /\ op = "idle"
  /\ \E s \in Searches : \E rp \in CatalogReplies :
      Invoke("GetDiskImageByName", s, <<>>, <<>>, rp, GetDiskImageByNameOp(s, rp))

GetMostRecentDistro ==
  /\ op = "idle"
  /\ \E s \in Searches : \E rp \in CatalogReplies :
      Invoke("GetMostRecentDistro", s, <<>>, <<>>, rp,
             GetMostRecentDistroOp(s, rp, loopVarPerIteration))

CreateDiskImage ==
  /\ op = "idle"
  /\ \E p \in CreateParams : \E rp \in CreateReplies :
      Invoke("CreateDiskImage", <<>>, <<>>, <<p>>, rp, CreateDiskImageOp(p, rp))

DeleteDiskImage ==
  /\ op = "idle"
  /\ \E id \in IDs : \E rp \in DeleteReplies :
      Invoke("DeleteDiskImage", id, <<>>, <<>>, rp, DeleteDiskImageOp(id, rp))

\* The caller takes the result; the client keeps nothing between invocations.
Return ==
  /\ op # "idle"
  /\ op' = "idle"
  /\ search' = <<>>
  /\ includeCustom' = <<>>
  /\ params' = <<>>
  /\ reply' = Failed
  /\ requests' = <<>>
  /\ images' = <<>>
  /\ image' = <<>>
  /\ created' = <<>>
  /\ err' = NoError
  /\ UNCHANGED loopVarPerIteration

Next ==
  \/ ListDiskImages
  \/ GetDiskImage
  \/ FindDiskImage
  \/ GetDiskImageByName
  \/ GetMostRecentDistro
  \/ CreateDiskImage
  \/ DeleteDiskImage
  \/ Return

Spec == Init /\ [][Next]_vars

(***************************************************************************)
(* What the claims speak of, stated on the invocation's input: the reply   *)
(* of the transport and the argument.                                      *)
(***************************************************************************)
\* A Name of one of the reserved image families.
Reserved(name) == Contains(name, K3s) \/ Contains(name, Talos)

NotReserved(d) == ~Reserved(d.Name)

\* The catalog request succeeded and its body decoded.
CatalogFetched == reply.ok /\ reply.wellFormed

\* The server's catalog without the reserved families, in the server's order.
Filtered == SelectSeq(reply.body, NotReserved)

IsExact(d) == d.Name = search \/ d.ID = search

IsPartial(d) == Contains(d.Name, search) \/ Contains(d.ID, search)

\* The positions of the filtered catalog matching the search exactly, and
\* those matching it only partially.
ExactAt == {i \in 1..Len(Filtered) : IsExact(Filtered[i])}
PartialAt == {i \in 1..Len(Filtered) : IsPartial(Filtered[i]) /\ ~IsExact(Filtered[i])}

Min(S) == CHOOSE x \in S : \A y \in S : x <= y
Max(S) == CHOOSE x \in S : \A y \in S : y <= x

MultipleMatches ==
  Errorf("MultipleMatchesError",
         "unable to find %s because there were multiple matches", search)

ZeroMatches == Errorf("ZeroMatchesError", "unable to find %s, zero matches", search)

Scanning == {"FindDiskImage", "GetDiskImageByName", "GetMostRecentDistro"}

(***************************************************************************)
(* C1: FindDiskImage succeeds with an exactly matching entry of the        *)
(* filtered catalog whenever there is one, whatever entries match          *)
(* partially and wherever they stand.                                      *)
(***************************************************************************)
C1_ExactMatchReturned ==
  (op = "FindDiskImage" /\ CatalogFetched /\ ExactAt # {})
    => /\ err = NoError
       /\ Len(image) = 1
       /\ \E i \in ExactAt : image[1] = Filtered[i]
       /\ image[1].Name = search \/ image[1].ID = search

\* An exact match followed by an entry that matches only partially.
C1_Witness ==
  /\ op = "FindDiskImage" /\ CatalogFetched
  /\ Len(Filtered) = 2
  /\ ExactAt = {1} /\ PartialAt = {2}
  /\ image = <<Filtered[1]>>

(***************************************************************************)
(* C2: with no exact match and exactly one partial match, FindDiskImage    *)
(* succeeds with that entry.                                               *)
(***************************************************************************)
C2_SinglePartialReturned ==
  (op = "FindDiskImage" /\ CatalogFetched /\ ExactAt = {}
     /\ Cardinality(PartialAt) = 1)
    => /\ err = NoError
       /\ image = <<Filtered[Min(PartialAt)]>>

\* The one partial match is by ID, beside an entry that does not match.
C2_Witness ==
  /\ op = "FindDiskImage" /\ CatalogFetched
  /\ Len(Filtered) = 2
  /\ ExactAt = {} /\ PartialAt = {2}
  /\ ~Contains(Filtered[2].Name, search)
  /\ image = <<Filtered[2]>>

(***************************************************************************)
(* C3: with the catalog fetched and no exact match, FindDiskImage fails    *)
(* with MultipleMatchesError naming the search when two or more entries    *)
(* match partially and with ZeroMatchesError naming it when none does,     *)
(* returning no image; it fails in no other case.                          *)
(***************************************************************************)
C3_FindErrors ==
  (op = "FindDiskImage" /\ CatalogFetched)
    => /\ (ExactAt = {} /\ Cardinality(PartialAt) >= 2)
            => (err = MultipleMatches /\ image = <<>>)
       /\ (ExactAt = {} /\ PartialAt = {})
            => (err = ZeroMatches /\ image = <<>>)
       /\ err # NoError
            => (ExactAt = {} /\ Cardinality(PartialAt) # 1 /\ image = <<>>)

\* Two partial matches of a non-empty search, no exact one.
C3_Witness ==
  /\ op = "FindDiskImage" /\ CatalogFetched
  /\ search # <<>>
  /\ ExactAt = {} /\ Cardinality(PartialAt) = 2
  /\ err.kind = "MultipleMatchesError" /\ err.arg = search

(***************************************************************************)
(* C4: a successful ListDiskImages returns, for every value of             *)
(* includeCustom, exactly the entries of the reply whose Name contains     *)
(* neither "k3s" nor "talos", in the reply's order.                        *)
(***************************************************************************)
C4_ListFiltered ==
  (op = "ListDiskImages" /\ CatalogFetched)
    => /\ err = NoError
       /\ images = Filtered
       /\ \A i \in 1..Len(images) :
            ~Contains(images[i].Name, K3s) /\ ~Contains(images[i].Name, Talos)

\* includeCustom is true and a "talos" entry is dropped before a kept one.
C4_Witness ==
  /\ op = "ListDiskImages" /\ CatalogFetched
  /\ includeCustom = <<TRUE>>
  /\ Len(reply.body) = 2
  /\ Contains(reply.body[1].Name, Talos)
  /\ images = <<reply.body[2]>>

(***************************************************************************)
(* C5: when entries of the filtered catalog contain the name,              *)
(* GetMostRecentDistro returns the one of them with the highest Version    *)
(* under semver.Compare, the earliest in catalog order among those that    *)
(* share it.                                                               *)
(***************************************************************************)
\* The positions of the filtered catalog whose Name contains the name.
DistroAt == {i \in 1..Len(Filtered) : Contains(Filtered[i].Name, search)}

\* Among them, those no other one has a higher Version than.
HighestAt ==
  {i \in DistroAt :
     \A j \in DistroAt : Compare(Filtered[i].Version, Filtered[j].Version) >= 0}

C5_HighestVersionReturned ==
  (op = "GetMostRecentDistro" /\ CatalogFetched /\ DistroAt # {})
    => /\ err = NoError
       /\ image = <<Filtered[Min(HighestAt)]>>

\* The same, for the builds whose range variables are per iteration.
C5_HighestVersionReturnedPerIteration ==
  loopVarPerIteration => C5_HighestVersionReturned

(***************************************************************************)
(* C6: with the catalog fetched, GetMostRecentDistro fails, with the       *)
(* not-found error naming the search term and without an image, exactly    *)
(* when no entry of the filtered catalog has a Name containing the term.   *)
(***************************************************************************)
C6_DistroNotFound ==
  (op = "GetMostRecentDistro" /\ CatalogFetched)
    => /\ (err # NoError) <=> (DistroAt = {})
       /\ err # NoError
            => (err = Errorf("fmt.Errorf", "%s image not found", search) /\ image = <<>>)
       /\ err = NoError => Len(image) = 1

\* Not found although the search is part of an entry's ID.
C6_Witness ==
  /\ op = "GetMostRecentDistro" /\ CatalogFetched
  /\ Len(Filtered) > 0
  /\ \E i \in 1..Len(Filtered) : Contains(Filtered[i].ID, search)
  /\ search # <<>>
  /\ err.format = "%s image not found" /\ err.arg = search

(***************************************************************************)
(* C7: GetDiskImageByName returns the first entry of the filtered catalog  *)
(* whose Name equals the name (a substring or an ID does not count) and    *)
(* fails with the generic not-found error, without an image, exactly when  *)
(* no entry has that Name.                                                 *)
(***************************************************************************)
NamedAt == {i \in 1..Len(Filtered) : Filtered[i].Name = search}

C7_FirstByName ==
  (op = "GetDiskImageByName" /\ CatalogFetched)
    => IF NamedAt # {}
       THEN err = NoError /\ image = <<Filtered[Min(NamedAt)]>>
       ELSE err = Errorf("errors.New", "diskimage not found", <<>>) /\ image = <<>>

\* Two different entries of the same Name: the first one is returned.
C7_Witness ==
  /\ op = "GetDiskImageByName" /\ CatalogFetched
  /\ NamedAt = {1, 2}
  /\ Filtered[1] # Filtered[2]
  /\ image = <<Filtered[1]>>

(***************************************************************************)
(* C8: every invocation issues exactly one transport request; a failed     *)
(* request ends it with an error and no result; the three scanning         *)
(* operations issue one GET of the catalog without type=custom.            *)
(***************************************************************************)
C8_OneRequest ==
  op # "idle"
    => /\ Len(requests) = 1
       /\ ~reply.ok
            => (err # NoError /\ images = <<>> /\ image = <<>> /\ created = <<>>)
       /\ op \in Scanning
            => requests = <<Request("GET", "/v2/disk_images", <<>>, "", <<>>)>>
       /\ op = "ListDiskImages"
            => (requests[1].method = "GET" /\ requests[1].path = "/v2/disk_images")
       /\ op = "GetDiskImage"
            => requests = <<Request("GET", "/v2/disk_images/%s", search, "", <<>>)>>
       /\ op = "CreateDiskImage"
            => requests = <<Request("POST", "/v2/disk_images", <<>>, "", params)>>
       /\ op = "DeleteDiskImage"
            => requests = <<Request("DELETE", "/v2/disk_images/%s", search, "", <<>>)>>

\* A scanning operation whose catalog request failed.
C8_Witness ==
  /\ op = "FindDiskImage"
  /\ ~reply.ok
  /\ Len(requests) = 1
  /\ err # NoError

(***************************************************************************)
(* C9: when several entries of the filtered catalog match the search       *)
(* exactly, FindDiskImage returns the last of them in catalog order.       *)
(***************************************************************************)
C9_LastExactMatch ==
  (op = "FindDiskImage" /\ CatalogFetched /\ Cardinality(ExactAt) >= 2)
    => /\ err = NoError
       /\ image = <<Filtered[Max(ExactAt)]>>

\* One entry matches by Name, a later and different one by ID.
C9_Witness ==
  /\ op = "FindDiskImage" /\ CatalogFetched
  /\ ExactAt = {1, 2}
  /\ Filtered[1].Name = search /\ Filtered[1].ID # search
  /\ Filtered[2].ID = search /\ Filtered[2].Name # search
  /\ image = <<Filtered[2]>>

(***************************************************************************)
(* C10: the scanning operations never return an image of a reserved        *)
(* family, not even when the search is its ID or Name; such an image       *)
(* counts neither as an exact nor as a partial match, so FindDiskImage     *)
(* fails with zero matches when nothing but reserved images matches.       *)
(***************************************************************************)
\* The positions of the server's catalog that match exactly or partially.
RawMatchAt ==
  {i \in 1..Len(reply.body) : IsExact(reply.body[i]) \/ IsPartial(reply.body[i])}

C10_ReservedNeverReturned ==
  /\ op \in Scanning => \A i \in 1..Len(image) : ~Reserved(image[i].Name)
  /\ (op = "FindDiskImage" /\ CatalogFetched
        /\ \A i \in RawMatchAt : Reserved(reply.body[i].Name))
       => (err = ZeroMatches /\ image = <<>>)

\* The search is the ID of a reserved image and matches nothing else.
C10_Witness ==
  /\ op = "FindDiskImage" /\ CatalogFetched
  /\ Len(reply.body) = 2
  /\ RawMatchAt = {1}
  /\ reply.body[1].ID = search
  /\ Reserved(reply.body[1].Name)
  /\ err = ZeroMatches

====
